---- MODULE Spec2Model ----
(***************************************************************************)
(* Character-level RNN name generator (WEEK05/RNN-task.py).                *)
(*                                                                         *)
(* Modelled: the vocabulary (tokens, token_to_id), the batcher to_matrix,  *)
(* the recurrent step rnn_one_step, the unrolled training graph with its   *)
(* flattened prediction/answer matrices, and the sampler generate_sample   *)
(* with its session variable h_t.                                          *)
(*                                                                         *)
(* Numbers are abstracted symbolically.  A hidden state is the sequence of *)
(* <<input id, weights version>> pairs that have been folded into it since *)
(* the zero vector, i.e. the term  f_w(x_n, ... f_w(x_1, 0))  with the     *)
(* dense layers left uninterpreted; the distribution emitted by a step is  *)
(* determined by the hidden state it is computed from, and its support is  *)
(* the whole vocabulary (softmax is strictly positive).  The weights are   *)
(* identified by the number of optimizer updates applied to them.          *)
(*                                                                         *)
(* A character is a one-character string, a Python string is a sequence of *)
(* characters.  Python ids are 0-based, TLA+ sequences 1-based: tokens[ix] *)
(* of the code is tokens[ix + 1] here.  A call ends as Returned(value) or   *)
(* as Raised(<exception class>).                                           *)
(***************************************************************************)
EXTENDS Integers, Sequences, FiniteSets

\* ------------------------------------------------------------------ bounds
\* longest seed phrase passed to generate_sample
MaxSeedLen == 2
\* largest max_length passed to generate_sample
MaxGenLen == 3
\* number of training iterations modelled (range(1000) in the code)
MaxTrain == 1
\* rows sampled per training batch (32 in the code)
batch_size == 2
\* to_matrix: most rows, longest row and largest max_len / pad tried
MaxRows == 2
MaxRowLen == 2
MaxPad == 1

\* --------------------------------------------------------------- constants
start_token == " "
pad_token == "#"
\* Python's None, and a value that is present (an optional value)
None == << >>
Some(v) == <<v>>

\* how a call ends: it returns a value or raises an exception
Pending == [kind |-> "pending"]
Returned(v) == [kind |-> "return", value |-> v]
Raised(e) == [kind |-> "raise", error |-> e]

\* Contents of the file "names" (one name per line), before the start token
\* is prepended.  The names of the second corpus contain the pad character,
\* those of the first do not.  The vocabularies have two symbols each; the
\* size window asserted at line 78 (50 < n_tokens < 60) is not modelled.
Corpora ==
    { << <<"a">>, <<"a", "a">>, << >> >>,
      << <<"#">>, <<"#", "#">>, << >> >> }

\* characters a caller may put in a seed phrase
Chars == {" ", "a", "#"}
\* characters of the names given to to_matrix
MatChars == {"a", "#"}

Procs == {1, 2}
\* the notebook itself runs on one thread
MainThread == {1}

\* ----------------------------------------------------------------- helpers
Range(f) == { f[i] : i \in DOMAIN f }

SeqsUpTo(S, n) == UNION { [1..k -> S] : k \in 0..n }

Max(S) == CHOOSE m \in S : \A k \in S : k <= m

RECURSIVE Concat(_)
\* ''.join(list) / flattening of a list of sequences
Concat(ss) == IF ss = << >> THEN << >> ELSE Head(ss) \o Concat(Tail(ss))

Orderings(S) == { f \in [1..Cardinality(S) -> S] : Range(f) = S }

VARIABLES
    names,             \* the corpus, start token prepended
    tokens,            \* list(set(...)): the vocabulary in its id order
    weights,           \* number of optimizer updates applied to the layers
    batch,             \* the batch of the last training iteration
    loss_i,            \* the terms of the loss of the last training iteration
    h_t,               \* the sampler's tf.Variable, shape [1, rnn_num_units]
    pc,                \* per caller: position in generate_sample
    seed_phrase, max_length, x_sequence,   \* per caller: arguments and locals
    n_replay, n_gen,   \* per caller: iterations done of the two loops
    h_own,             \* per caller: value its last assign to h_t wrote
    result,            \* per caller: returned string or raised exception
    mat_args, mat_out  \* to_matrix: the last call's arguments and outcome

vars == << names, tokens, weights, batch, loss_i,
           h_t, pc, seed_phrase, max_length, x_sequence, n_replay, n_gen,
           h_own, result, mat_args, mat_out >>

sampler_vars == << h_t, pc, seed_phrase, max_length, x_sequence, n_replay,
                   n_gen, h_own, result >>
train_vars == << weights, batch, loss_i >>
mat_vars == << mat_args, mat_out >>

\* -------------------------------------------------------------- vocabulary
\* names = [start_token + name for name in names]
LoadNames(lines) == [i \in 1..Len(lines) |-> <<start_token>> \o lines[i]]

\* MAX_LENGTH = max(map(len, names))
MAX_LENGTH == Max({ Len(names[i]) : i \in 1..Len(names) })

\* set(''.join(names[:]))
TokenSet(ns) == Range(Concat(ns))

n_tokens == Len(tokens)

\* token_to_id[tokens[i]] = i  for i in range(n_tokens); the last write wins
token_to_id ==
    [c \in Range(tokens) |->
        Max({ i \in 1..Len(tokens) : tokens[i] = c }) - 1]

\* ------------------------------------------------------------------ batcher
\* list(map(token_to_id.get, name)): dict.get gives None for a missing key
name_ix(name) ==
    [j \in 1..Len(name) |->
        IF name[j] \in DOMAIN token_to_id THEN Some(token_to_id[name[j]]) ELSE None]

\* names_ix[i, :len(name_ix)] = name_ix  on a row of max_len int32 entries:
\* numpy converts the list first (None is no int) and then needs it to fit
AssignRow(row, ix) ==
    IF \E j \in 1..Len(ix) : ix[j] = None
    THEN Raised("TypeError")
    ELSE IF Len(ix) > Len(row)
    THEN Raised("ValueError")
    ELSE Returned([j \in 1..Len(row) |-> IF j <= Len(ix) THEN ix[j][1] ELSE row[j]])

RECURSIVE FillRows(_, _, _)
\* for i in range(len(names)): ...   (lines 107-109), from row i on
FillRows(names_ix, ns, i) ==
    IF i > Len(ns)
    THEN Returned(names_ix)
    ELSE LET r == AssignRow(names_ix[i], name_ix(ns[i]))
         IN  IF r.kind = "return"
             THEN FillRows([names_ix EXCEPT ![i] = r.value], ns, i + 1)
             ELSE r

\* (mutant) the matrix is left at zero, the pad is not added
FilledWithZeros(rows, max_len, pad) == [i \in 1..rows |-> [j \in 1..max_len |-> 0]]

\* np.zeros([len(names), max_len], dtype) + pad
Filled(rows, max_len, pad) == [i \in 1..rows |-> [j \in 1..max_len |-> 0 + pad]]

\* to_matrix(names, max_len=None, pad=0);  max_len or max(map(len, names))
\* takes the maximum also when max_len is 0
to_matrix(ns, max_len_arg, pad) ==
    IF max_len_arg \in {None, Some(0)} /\ ns = << >>
    THEN \* max() of an empty sequence
         Raised("ValueError")
    ELSE LET max_len == IF max_len_arg \in {None, Some(0)}
                        THEN Max({ Len(ns[i]) : i \in 1..Len(ns) })
                        ELSE max_len_arg[1]
         IN  FillRows(Filled(Len(ns), max_len, pad), ns, 1)

\* ----------------------------------------------------------- recurrent step
\* np.zeros([rows, rnn_num_units]) / tf.zeros([batch_size, rnn_num_units])
ZeroState(rows) == [r \in 1..rows |-> << >>]

\* rnn_one_step(x_t, h_t): x is a vector of ids, h the matching hidden states
rnn_one_step(x, h) ==
    LET h_next == [r \in 1..Len(x) |-> Append(h[r], <<x[r], weights>>)]
        output_probas == [r \in 1..Len(x) |->
                            [state |-> h_next[r], support |-> 0..(n_tokens - 1)]]
    IN  [probas |-> output_probas, h_next |-> h_next]

\* ----------------------------------------------------------- training graph
\* input_sequence[:, t]
Column(input_sequence, t) ==
    [r \in 1..Len(input_sequence) |-> input_sequence[r][t]]

RECURSIVE Unroll(_, _, _, _, _)
\* for t in range(MAX_LENGTH): ...  (lines 206-214), from step t to step T
Unroll(input_sequence, t, T, h_prev, predicted_probas) ==
    IF t > T
    THEN [h_prev |-> h_prev, predicted_probas |-> predicted_probas]
    ELSE LET out == rnn_one_step(Column(input_sequence, t), h_prev)
         IN  Unroll(input_sequence, t + 1, T, out.h_next,
                    Append(predicted_probas, out.probas))

\* (mutant) the stacked steps are used as they are, time-major
NotTransposed(stacked, rows) == stacked

\* tf.transpose(tf.stack(predicted_probas), [1, 0, 2]): [time, batch] -> [batch, time]
Transpose(stacked, rows) ==
    [r \in 1..rows |-> [t \in 1..Len(stacked) |-> stacked[t][r]]]

\* predicted_probas[:, :-1, :]
DropLast(m) == [r \in 1..Len(m) |-> SubSeq(m[r], 1, Len(m[r]) - 1)]

\* predicted_probas of lines 217-220, for a batch fed as input_sequence
predicted_probas(input_sequence) ==
    LET rows == Len(input_sequence)
        loop == Unroll(input_sequence, 1, MAX_LENGTH, ZeroState(rows), << >>)
    IN  DropLast(Transpose(loop.predicted_probas, rows))

\* tf.one_hot(id, n_tokens)
one_hot(ix) == [k \in 1..n_tokens |-> IF k - 1 = ix THEN 1 ELSE 0]

\* tf.reshape(predicted_probas, [-1, n_tokens])
predictions_matrix(input_sequence) == Concat(predicted_probas(input_sequence))

\* tf.one_hot(tf.reshape(input_sequence[:, 1:], [-1]), n_tokens)
answers_matrix(input_sequence) ==
    LET flat == Concat([r \in 1..Len(input_sequence) |-> Tail(input_sequence[r])])
    IN  [k \in 1..Len(flat) |-> one_hot(flat[k])]

\* categorical_crossentropy(answers_matrix, predictions_matrix): the terms
\* the mean is taken over, one <<answer, prediction>> pair per flat position
loss(input_sequence) ==
    LET a == answers_matrix(input_sequence)
        q == predictions_matrix(input_sequence)
    IN  [k \in 1..Len(q) |-> <<a[k], q[k]>>]

\* random.sample(names, batch_size): batch_size distinct positions, any order
Samples(ns, k) ==
    { [j \in 1..k |-> ns[pos[j]]] :
        pos \in { f \in [1..k -> 1..Len(ns)] :
                    \A a, b \in 1..k : a /= b => f[a] /= f[b] } }

\* one iteration of the training loop (lines 272-276)
TrainStep ==
    /\ weights < MaxTrain
    /\ \E chosen \in Samples(names, batch_size) :
          LET m == to_matrix(chosen, Some(MAX_LENGTH), 0)
          IN  /\ m.kind = "return"
              /\ batch' = m.value
              /\ loss_i' = loss(m.value)
    /\ weights' = weights + 1
    /\ UNCHANGED << names, tokens, sampler_vars, mat_vars >>

\* ------------------------------------------------------------------ sampler
Running(p) == pc[p] \in {"replay", "generate"}

\* [token_to_id[token] for token in seed_phrase]
Encode(s) ==
    IF \E i \in 1..Len(s) : s[i] \notin DOMAIN token_to_id
    THEN Raised("KeyError")
    ELSE Returned([i \in 1..Len(s) |-> token_to_id[s[i]]])

\* (mutant) the leading start symbol is dropped from the output
DecodeWithoutStart(xs) ==
    LET keep == SelectSeq(SubSeq(xs, 2, Len(xs)),
                          LAMBDA ix : tokens[ix + 1] /= pad_token)
    IN  [i \in 1..Len(keep) |-> tokens[keep[i] + 1]]

RECURSIVE DecodeTrimmed(_)
\* (mutant) only the pads at the end are dropped
DecodeTrimmed(xs) ==
    IF xs /= << >> /\ tokens[xs[Len(xs)] + 1] = pad_token
    THEN DecodeTrimmed(SubSeq(xs, 1, Len(xs) - 1))
    ELSE [i \in 1..Len(xs) |-> tokens[xs[i] + 1]]

\* ''.join([tokens[ix] for ix in x_sequence if tokens[ix] != pad_token])
Decode(xs) ==
    LET keep == SelectSeq(xs, LAMBDA ix : tokens[ix + 1] /= pad_token)
    IN  [i \in 1..Len(keep) |-> tokens[keep[i] + 1]]

\* (mutant) h_t is not reset: it keeps what the last call left in it
stale_value == h_t

\* h_t.initial_value: np.zeros([1, rnn_num_units])
initial_value == ZeroState(1)

\* (mutant) the first loop feeds every seed id, the last one included
ReplayAll(xs) == xs

\* x_sequence[:-1], the ids the first loop feeds
ReplayIds(xs) == SubSeq(xs, 1, Len(xs) - 1)

\* max_length-len(seed_phrase), the argument of range() in the second loop
Budget(maxlen, seed) == maxlen - Len(seed)

\* lines 312-313 and the entry into the first loop that has work to do
Call(p, seed, maxlen) ==
    /\ pc[p] = "idle"
    /\ seed_phrase' = [seed_phrase EXCEPT ![p] = seed]
    /\ max_length' = [max_length EXCEPT ![p] = maxlen]
    /\ n_replay' = [n_replay EXCEPT ![p] = 0]
    /\ n_gen' = [n_gen EXCEPT ![p] = 0]
    /\ LET enc == Encode(seed) IN
       IF enc.kind = "return"
       THEN /\ x_sequence' = [x_sequence EXCEPT ![p] = enc.value]
            /\ h_t' = initial_value
            /\ h_own' = [h_own EXCEPT ![p] = initial_value]
            /\ result' = [result EXCEPT ![p] = Pending]
            /\ pc' = [pc EXCEPT ![p] =
                        IF ReplayIds(enc.value) /= << >>
                        THEN "replay" ELSE "generate"]
       ELSE /\ x_sequence' = [x_sequence EXCEPT ![p] = << >>]
            /\ result' = [result EXCEPT ![p] = Raised(enc.error)]
            /\ pc' = [pc EXCEPT ![p] = "error"]
            /\ UNCHANGED << h_t, h_own >>
    /\ UNCHANGED << names, tokens, train_vars, mat_vars >>

\* one iteration of  for ix in x_sequence[:-1]  (lines 316-317)
ReplayStep(p) ==
    /\ pc[p] = "replay"
    /\ LET ix == ReplayIds(x_sequence[p])[n_replay[p] + 1]
           out == rnn_one_step(<<ix>>, h_t)
       IN  /\ h_t' = out.h_next
           /\ h_own' = [h_own EXCEPT ![p] = out.h_next]
    /\ n_replay' = [n_replay EXCEPT ![p] = @ + 1]
    /\ pc' = [pc EXCEPT ![p] =
                IF n_replay[p] + 1 < Len(ReplayIds(x_sequence[p]))
                THEN "replay" ELSE "generate"]
    /\ UNCHANGED << names, tokens, train_vars, mat_vars, seed_phrase,
                    max_length, x_sequence, n_gen, result >>

\* one iteration of  for _ in range(max_length-len(seed_phrase))  (320-322)
GenerateStep(p) ==
    /\ pc[p] = "generate"
    /\ n_gen[p] < Budget(max_length[p], seed_phrase[p])
    /\ IF x_sequence[p] = << >>
       THEN \* x_sequence[-1] of an empty list
            /\ result' = [result EXCEPT ![p] = Raised("IndexError")]
            /\ pc' = [pc EXCEPT ![p] = "error"]
            /\ UNCHANGED << h_t, h_own, x_sequence, n_gen >>
       ELSE LET last == x_sequence[p][Len(x_sequence[p])]
                out == rnn_one_step(<<last>>, h_t)
                x_probs == out.probas
            IN  /\ h_t' = out.h_next
                /\ h_own' = [h_own EXCEPT ![p] = out.h_next]
                /\ \E ix \in x_probs[1].support :
                      x_sequence' = [x_sequence EXCEPT ![p] = Append(@, ix)]
                /\ n_gen' = [n_gen EXCEPT ![p] = @ + 1]
                /\ UNCHANGED << pc, result >>
    /\ UNCHANGED << names, tokens, train_vars, mat_vars, seed_phrase,
                    max_length, n_replay >>

\* line 324
Return(p) ==
    /\ pc[p] = "generate"
    /\ n_gen[p] >= Budget(max_length[p], seed_phrase[p])
    /\ result' = [result EXCEPT ![p] = Returned(Decode(x_sequence[p]))]
    /\ pc' = [pc EXCEPT ![p] = "done"]
    /\ UNCHANGED << names, tokens, train_vars, mat_vars, h_t, h_own,
                    seed_phrase, max_length, x_sequence, n_replay, n_gen >>

\* the caller takes the returned string or the exception (print(...) at
\* lines 332 and 340, the list of line 357) and the call's frame is gone
ShowSample(p) ==
    /\ pc[p] \in {"done", "error"}
    /\ pc' = [pc EXCEPT ![p] = "idle"]
    /\ seed_phrase' = [seed_phrase EXCEPT ![p] = << >>]
    /\ max_length' = [max_length EXCEPT ![p] = 0]
    /\ x_sequence' = [x_sequence EXCEPT ![p] = << >>]
    /\ n_replay' = [n_replay EXCEPT ![p] = 0]
    /\ n_gen' = [n_gen EXCEPT ![p] = 0]
    /\ result' = [result EXCEPT ![p] = Pending]
    /\ UNCHANGED << names, tokens, train_vars, mat_vars, h_t, h_own >>

\* to_matrix applied to the arguments drawn at the start
ToMatrix ==
    /\ mat_out = Pending
    /\ mat_out' = to_matrix(mat_args.names, mat_args.max_len, mat_args.pad)
    /\ UNCHANGED << names, tokens, train_vars, sampler_vars, mat_args >>

\* ------------------------------------------------------------ specification
\* the state after the cells up to In[9] have run: corpus and vocabulary
Loaded ==
    /\ \E lines \in Corpora :
          /\ names = LoadNames(lines)
          /\ tokens \in Orderings(TokenSet(LoadNames(lines)))
    /\ weights = 0
    /\ batch = << >>
    /\ loss_i = << >>
    /\ h_t = ZeroState(1)
    /\ pc = [p \in Procs |-> "idle"]
    /\ seed_phrase = [p \in Procs |-> << >>]
    /\ max_length = [p \in Procs |-> 0]
    /\ x_sequence = [p \in Procs |-> << >>]
    /\ n_replay = [p \in Procs |-> 0]
    /\ n_gen = [p \in Procs |-> 0]
    /\ h_own = [p \in Procs |-> ZeroState(1)]
    /\ result = [p \in Procs |-> Pending]
    /\ mat_out = Pending

Init ==
    /\ Loaded
    /\ mat_args = [names |-> << >>, max_len |-> None, pad |-> 0]

Seeds == SeqsUpTo(Chars, MaxSeedLen)

Step(p) ==
    \/ ReplayStep(p)
    \/ GenerateStep(p)
    \/ Return(p)

\* the notebook: one thread, every call runs to completion before the next
Next ==
    \/ \E p \in MainThread :
          \/ \E seed \in Seeds, maxlen \in 0..MaxGenLen : Call(p, seed, maxlen)
          \/ Step(p)
          \/ ShowSample(p)
    \/ (\A p \in Procs : pc[p] = "idle") /\ TrainStep

Spec == Init /\ [][Next]_vars

\* the loops of generate_sample are plain Python loops: a call that has
\* started keeps running
LiveSpec == Spec /\ \A p \in MainThread : WF_vars(Step(p))

\* to_matrix as a function of its arguments
MatArgs ==
    [names : SeqsUpTo(SeqsUpTo(MatChars, MaxRowLen), MaxRows),
     max_len : {None} \cup { Some(n) : n \in 0..(MaxRowLen + 1) },
     pad : 0..MaxPad]

MatInit ==
    /\ Loaded
    /\ mat_args \in MatArgs

MatNext == ToMatrix

MatSpec == MatInit /\ [][MatNext]_vars

\* callers on several threads: the statements of generate_sample calls and
\* training iterations interleave, each s.run being atomic
ConcSeeds == { <<start_token>>, <<start_token, "a">> }
ConcLens == {2}

ConcNext ==
    \/ \E p \in Procs :
          \/ \E seed \in ConcSeeds, maxlen \in ConcLens : Call(p, seed, maxlen)
          \/ Step(p)
          \/ ShowSample(p)
    \/ TrainStep

ConcSpec == Init /\ [][ConcNext]_vars

\* ================================================================== claims
StartsWithStart(seed) == seed /= << >> /\ seed[1] = start_token

InVocabulary(seed) == \A i \in 1..Len(seed) : seed[i] \in Range(tokens)

\* a string with every pad character deleted
RECURSIVE WithoutPad(_)
WithoutPad(str) ==
    IF str = << >> THEN << >>
    ELSE IF Head(str) = pad_token THEN WithoutPad(Tail(str))
    ELSE <<Head(str)>> \o WithoutPad(Tail(str))

IsPrefix(a, b) == Len(a) <= Len(b) /\ SubSeq(b, 1, Len(a)) = a

\* the characters the ids of xs stand for, pads included
Symbols(xs) == [i \in 1..Len(xs) |-> tokens[xs[i] + 1]]

\* ---- C1
\* The number of steps a call with a non-empty seed over the vocabulary
\* makes in each phase.
C1_Counts ==
    \A p \in MainThread :
        LET len == Len(seed_phrase[p])
            budget == IF max_length[p] > len THEN max_length[p] - len ELSE 0
        IN  (seed_phrase[p] /= << >> /\ InVocabulary(seed_phrase[p])) =>
              /\ pc[p] = "replay" =>
                    n_replay[p] < len - 1 /\ n_gen[p] = 0
              /\ pc[p] = "generate" =>
                    /\ n_replay[p] = len - 1
                    /\ n_gen[p] <= budget
                    /\ Len(x_sequence[p]) = len + n_gen[p]
              /\ pc[p] = "done" =>
                    /\ n_replay[p] = len - 1
                    /\ n_gen[p] = budget
                    /\ Len(x_sequence[p]) = len + budget
              /\ pc[p] /= "error"

\* The phases of a call only move forward.
C1_Forward ==
    \A p \in MainThread :
        /\ pc[p] = "idle" /\ seed_phrase'[p] /= << >> /\ InVocabulary(seed_phrase'[p]) =>
              pc'[p] = (IF Len(seed_phrase'[p]) > 1 THEN "replay" ELSE "generate")
        /\ pc[p] = "replay" => pc'[p] \in {"replay", "generate"}
        /\ pc[p] = "generate" /\ seed_phrase[p] /= << >> =>
              pc'[p] \in {"generate", "done"}
        /\ pc[p] = "done" => pc'[p] \in {"done", "idle"}

C2_StartStripped ==
    \A p \in MainThread :
        (pc[p] = "done" /\ StartsWithStart(seed_phrase[p])) =>
            IsPrefix(Tail(seed_phrase[p]), result[p].value)

\* C2 (amended): the returned string begins with the seed itself, leading
\* start symbol included, less any pad symbols the seed contains; the
\* generated characters follow.
C2_SeedKept ==
    \A p \in MainThread :
        (pc[p] = "done" /\ StartsWithStart(seed_phrase[p])) =>
            /\ result[p].kind = "return"
            /\ IsPrefix(WithoutPad(seed_phrase[p]), result[p].value)
            /\ result[p].value[1] = start_token

\* a seed of start symbol and one more symbol, returned with a generated
\* character after it
C2_Witness ==
    \E p \in MainThread :
        /\ pc[p] = "done"
        /\ StartsWithStart(seed_phrase[p])
        /\ Len(seed_phrase[p]) = 2
        /\ seed_phrase[p][2] /= pad_token
        /\ Len(result[p].value) = 3

\* ---- C3
\* C3: for a seed that starts with the start symbol and max_length >=
\* len(seed), the returned string is the seed ids followed by the generated
\* ids, decoded, with every pad symbol deleted wherever it stands: it holds
\* no pad symbol and at most max_length - len(seed) characters beyond the
\* seed.
C3_PadRemoved ==
    \A p \in MainThread :
        (/\ pc[p] = "done"
         /\ StartsWithStart(seed_phrase[p])
         /\ max_length[p] >= Len(seed_phrase[p])) =>
            LET out == result[p].value
                len == Len(seed_phrase[p])
            IN  /\ result[p].kind = "return"
                /\ Symbols(SubSeq(x_sequence[p], 1, len)) = seed_phrase[p]
                /\ out = WithoutPad(Symbols(x_sequence[p]))
                /\ \A i \in 1..Len(out) : out[i] /= pad_token
                /\ Len(out) - Len(WithoutPad(seed_phrase[p])) <= max_length[p] - len

\* the pad symbol was sampled in the middle and another symbol after it
C3_Witness ==
    \E p \in MainThread :
        /\ pc[p] = "done"
        /\ seed_phrase[p] = <<start_token>>
        /\ max_length[p] = 3
        /\ tokens[x_sequence[p][2] + 1] = pad_token
        /\ tokens[x_sequence[p][3] + 1] /= pad_token
        /\ Len(result[p].value) = 2

\* ---- C4
\* C4: a call whose seed does not begin with the start symbol (the empty
\* seed included) raises ValueError before any step is made or id sampled.
C4_SeedError ==
    \A p \in MainThread :
        (pc[p] /= "idle" /\ ~StartsWithStart(seed_phrase[p])) =>
            /\ pc[p] = "error"
            /\ result[p] = Raised("ValueError")
            /\ n_replay[p] = 0
            /\ n_gen[p] = 0

\* ---- C5
\* C5: while calls overlap, the hidden state a call is about to read is the
\* one the same call wrote last (or its own zero state).
C5_HiddenStatePrivate ==
    \A p \in Procs : Running(p) => h_t = h_own[p]

\* ---- C6
Longest(ns) == IF ns = << >> THEN 0 ELSE Max({ Len(ns[i]) : i \in 1..Len(ns) })

\* the width of the matrix the arguments ask for
Width(a) == IF a.max_len = None THEN Longest(a.names) ELSE a.max_len[1]

\* one row per name, each Width wide: the ids of the name, then pad
WellPadded(a, m) ==
    /\ Len(m) = Len(a.names)
    /\ \A i \in 1..Len(m) :
          /\ Len(m[i]) = Width(a)
          /\ Symbols(SubSeq(m[i], 1, Len(a.names[i]))) = a.names[i]
          /\ \A j \in (Len(a.names[i]) + 1)..Width(a) : m[i][j] = a.pad

\* names over the vocabulary and a max_length, if given, that fits them
FitsVocabulary(a) ==
    /\ \A i \in 1..Len(a.names) : InVocabulary(a.names[i])
    /\ a.max_len /= None => a.max_len[1] >= Longest(a.names)

\* C6 as stated: for every list of names over the vocabulary, every
\* max_length not below the longest and every pad_id, to_matrix returns the
\* padded matrix; without max_length its width is the longest name's length.
C6_EveryList ==
    (mat_out /= Pending /\ FitsVocabulary(mat_args)) =>
        /\ mat_out.kind = "return"
        /\ WellPadded(mat_args, mat_out.value)

\* C6 (amended): the same for every non-empty list, and for the empty list
\* when a max_length above 0 is given (to_matrix of an empty list with
\* max_length omitted or 0 raises ValueError).
C6_NonEmptyList ==
    (/\ mat_out /= Pending
     /\ FitsVocabulary(mat_args)
     /\ mat_args.names = << >> => mat_args.max_len \notin {None, Some(0)}) =>
        /\ mat_out.kind = "return"
        /\ WellPadded(mat_args, mat_out.value)

\* two names of different length, no max_length, a pad other than 0: the
\* longer row has no padding, the shorter ends in the pad
C6_Witness ==
    /\ mat_out.kind = "return"
    /\ mat_args.max_len = None
    /\ mat_args.pad = 1
    /\ Len(mat_args.names) = 2
    /\ Len(mat_args.names[1]) = 1
    /\ Len(mat_args.names[2]) = 2
    /\ mat_out.value[1][2] = 1
    /\ Symbols(mat_out.value[2]) = mat_args.names[2]

\* ---- C7
\* C7: the vocabulary holds the start and the pad symbol, and every
\* position of a training batch at or beyond its row's name length holds
\* the id of the pad symbol; stated of the states in which a batch has been
\* handed to the trainer.
C7_PadIsPadSymbol ==
    batch /= << >> =>
        /\ start_token \in Range(tokens)
        /\ pad_token \in Range(tokens)
        /\ \E chosen \in Samples(names, batch_size) :
              \A r \in 1..Len(batch) :
                  /\ Symbols(SubSeq(batch[r], 1, Len(chosen[r]))) = chosen[r]
                  /\ \A j \in (Len(chosen[r]) + 1)..Len(batch[r]) :
                        /\ batch[r][j] = token_to_id[pad_token]
                        /\ tokens[batch[r][j] + 1] = pad_token

\* ---- C8
LookupErrors == {"KeyError", "IndexError"}

\* C8: encoding a symbol that is not in the vocabulary raises a LookupError
\* wherever it happens, in to_matrix and in generate alike.
C8_LookupError ==
    /\ (/\ mat_out /= Pending
        /\ \E i \in 1..Len(mat_args.names) : ~InVocabulary(mat_args.names[i])) =>
          /\ mat_out.kind = "raise"
          /\ mat_out.error \in LookupErrors
    /\ \A p \in Procs :
          (pc[p] /= "idle" /\ ~InVocabulary(seed_phrase[p])) =>
              /\ pc[p] = "error"
              /\ result[p].kind = "raise"
              /\ result[p].error \in LookupErrors

\* ---- C9
\* the distribution emitted after the ids xs were fed, one by one, to a
\* hidden state of zero under the weights w
After(xs, w) ==
    [state |-> [j \in 1..Len(xs) |-> <<xs[j], w>>], support |-> 0..(n_tokens - 1)]

\* C9: the loss of a training iteration is taken over rows x (max_length-1)
\* pairs; the pair of row r and step t holds the distribution emitted after
\* columns 0..t of row r were fed in order from a zero hidden state, and
\* the one-hot code of column t+1 of the same row.  The distribution
\* emitted after a row's last column is in no pair.
C9_LossPairs ==
    batch /= << >> =>
        LET T == MAX_LENGTH
            w == weights - 1
        IN  /\ Len(loss_i) = Len(batch) * (T - 1)
            /\ \A r \in 1..Len(batch) :
                  /\ Len(batch[r]) = T
                  /\ \A k \in 1..Len(loss_i) : loss_i[k][2] /= After(batch[r], w)
                  /\ \A t \in 1..(T - 1) :
                        loss_i[(r - 1) * (T - 1) + t] =
                            << [k \in 1..n_tokens |->
                                    IF k - 1 = batch[r][t + 1] THEN 1 ELSE 0],
                               After(SubSeq(batch[r], 1, t), w) >>

\* a batch whose rows differ
C9_Witness ==
    /\ weights = 1
    /\ Len(batch) = 2
    /\ batch[1] /= batch[2]
    /\ Len(loss_i) = 4

\* ---- C10
\* C10: whatever ran before, a call enters GENERATE with the hidden state
\* that folding the step over all seed ids but the last gives from zero
\* under the current weights, which is the state the training loop holds
\* after the same ids as the first columns of a row; GENERATE then feeds the
\* last seed id, so that the seed ids are fed once each and in order.
C10_ReplayedState ==
    \A p \in MainThread :
        (pc[p] = "generate" /\ seed_phrase[p] /= << >>) =>
            LET len == Len(seed_phrase[p])
                ids == [j \in 1..len |-> token_to_id[seed_phrase[p][j]]]
                row == to_matrix(<<seed_phrase[p]>>, None, 0).value
            IN  /\ n_gen[p] = 0 =>
                    /\ h_t = << [j \in 1..(len - 1) |-> <<ids[j], weights>>] >>
                    /\ h_t = Unroll(row, 1, len - 1, ZeroState(1), << >>).h_prev
                /\ n_gen[p] > 0 =>
                    /\ Len(h_t[1]) = len + n_gen[p] - 1
                    /\ \A j \in 1..len : h_t[1][j] = <<ids[j], weights>>

\* a call made after a training iteration that has replayed its seed and
\* made its first GENERATE step
C10_Witness ==
    \E p \in MainThread :
        /\ pc[p] = "generate"
        /\ weights = 1
        /\ Len(seed_phrase[p]) = 2
        /\ n_gen[p] = 1
        /\ h_t[1][1][2] = 1

====
